---- MODULE Spec2Model ----
(***************************************************************************)
(* Model of serq::SerializeQueue (src/serq.hpp): the typed push/pop queue, *)
(* its staging stack, the length ledger, the serialized blob, the CRC-32   *)
(* framing of the file and a caller that records what it pushed.           *)
(*                                                                         *)
(* Representation.  A C++ integer value is a numeral: a tuple of bytes,    *)
(* most significant first (uint64_t: 8 digits, int/unsigned/float: 4,      *)
(* uint32_t checksum: 4, char: 1).  Memory, the blob and the file are      *)
(* tuples of bytes in address order.  The conversions between the two      *)
(* (shifts, masks, casts, reinterpret_cast on a little-endian build) are   *)
(* written out as the code performs them.                                  *)
(***************************************************************************)
EXTENDS Integers, Sequences, FiniteSets, TLC

\* ------------------------------------------------------------------ bounds
MaxPush == 2          \* pushes in one behaviour of Spec
MaxOrderPush == 3     \* pushes in one behaviour of SpecOrder
MaxScalarPush == 2    \* pushes in one behaviour of SpecScalar
MaxReadmePush == 3    \* pushes in one behaviour of SpecReadme
MaxNestPush == 2      \* pushes in one behaviour of SpecNest
MaxCollPush == 2      \* pushes in one behaviour of SpecColl
MaxTamperPush == 1    \* pushes in one behaviour of SpecTamper
MaxPopPush == 2       \* pushes in one behaviour of SpecPop
MaxMistyped == 1      \* pops per blob that do not follow the pushed types
MaxDryPush == 1       \* pushes in one behaviour of SpecDry
MaxLifePush == 2      \* pushes in one behaviour of SpecLife
MaxLedgerPush == 2    \* pushes in one behaviour of SpecLedger
MaxTuplePush == 2     \* pushes in one behaviour of SpecTuple
MaxDupPush == 2       \* pushes in one behaviour of SpecDup
MaxWildPush == 2      \* pushes in one behaviour of SpecWild
MaxWild == 2          \* pops per blob of SpecWild that do not follow the pushed types
LoopCap == 8          \* iterations of one element loop that are followed

\* ------------------------------------------------------- bytes and numerals
Byte == 0..255

Bit(x, i) == (x \div (2^i)) % 2

XorTable ==
  [a \in Byte |-> [b \in Byte |->
     LET x(i) == ((Bit(a, i) + Bit(b, i)) % 2) * (2^i)
     IN  x(0) + x(1) + x(2) + x(3) + x(4) + x(5) + x(6) + x(7)]]

\* u ^ v on 32-bit numerals
XorWord(u, v) ==
  <<XorTable[u[1]][v[1]], XorTable[u[2]][v[2]], XorTable[u[3]][v[3]], XorTable[u[4]][v[4]]>>

\* (w >> (index*8)) & 0xFF
ByteOf(w, index) == w[Len(w) - index]

\* w >> 8 on a 32-bit numeral
ShiftRight8(w) == <<0, w[1], w[2], w[3]>>

Zero32 == <<0, 0, 0, 0>>
Ones32 == <<255, 255, 255, 255>>
Zero64 == <<0, 0, 0, 0, 0, 0, 0, 0>>
Ones64 == <<255, 255, 255, 255, 255, 255, 255, 255>>

\* a size_t / small count as a uint64_t numeral (n < 2^31)
ToU64(n) ==
  <<0, 0, 0, 0, (n \div 16777216) % 256, (n \div 65536) % 256, (n \div 256) % 256, n % 256>>

\* TRUE when the uint64_t numeral is below 2^31
IsSmall(w) == w[1] = 0 /\ w[2] = 0 /\ w[3] = 0 /\ w[4] = 0 /\ w[5] < 128

SmallVal(w) == w[5] * 16777216 + w[6] * 65536 + w[7] * 256 + w[8]

\* --w on a numeral, wrapping
RECURSIVE DecWord(_, _)
DecWord(w, i) ==
  IF i = 0 THEN w
  ELSE IF w[i] > 0 THEN [w EXCEPT ![i] = @ - 1]
  ELSE DecWord([w EXCEPT ![i] = 255], i - 1)

\* w += 1 on a numeral, wrapping
RECURSIVE IncWord(_, _)
IncWord(w, i) ==
  IF i = 0 THEN w
  ELSE IF w[i] < 255 THEN [w EXCEPT ![i] = @ + 1]
  ELSE IncWord([w EXCEPT ![i] = 0], i - 1)

\* w *= 8 on a 64-bit numeral, wrapping
Times8(w) ==
  <<((w[1] * 8) % 256) + (w[2] \div 32), ((w[2] * 8) % 256) + (w[3] \div 32),
    ((w[3] * 8) % 256) + (w[4] \div 32), ((w[4] * 8) % 256) + (w[5] \div 32),
    ((w[5] * 8) % 256) + (w[6] \div 32), ((w[6] * 8) % 256) + (w[7] \div 32),
    ((w[7] * 8) % 256) + (w[8] \div 32), (w[8] * 8) % 256>>

\* static_cast<int>(w) of a uint64_t: the low 32 bits as a two's complement int
IntCast(w) ==
  IF w[5] < 128
  THEN w[5] * 16777216 + w[6] * 65536 + w[7] * 256 + w[8]
  ELSE 0 - ((255 - w[5]) * 16777216 + (255 - w[6]) * 65536 + (255 - w[7]) * 256 + (255 - w[8])) - 1

\* ------------------------------------------------------------------ CRC-32
crc_table == <<
    <<0,0,0,0>>, <<119,7,48,150>>, <<238,14,97,44>>, <<153,9,81,186>>,
    <<7,109,196,25>>, <<112,106,244,143>>, <<233,99,165,53>>, <<158,100,149,163>>,
    <<14,219,136,50>>, <<121,220,184,164>>, <<224,213,233,30>>, <<151,210,217,136>>,
    <<9,182,76,43>>, <<126,177,124,189>>, <<231,184,45,7>>, <<144,191,29,145>>,
    <<29,183,16,100>>, <<106,176,32,242>>, <<243,185,113,72>>, <<132,190,65,222>>,
    <<26,218,212,125>>, <<109,221,228,235>>, <<244,212,181,81>>, <<131,211,133,199>>,
    <<19,108,152,86>>, <<100,107,168,192>>, <<253,98,249,122>>, <<138,101,201,236>>,
    <<20,1,92,79>>, <<99,6,108,217>>, <<250,15,61,99>>, <<141,8,13,245>>,
    <<59,110,32,200>>, <<76,105,16,94>>, <<213,96,65,228>>, <<162,103,113,114>>,
    <<60,3,228,209>>, <<75,4,212,71>>, <<210,13,133,253>>, <<165,10,181,107>>,
    <<53,181,168,250>>, <<66,178,152,108>>, <<219,187,201,214>>, <<172,188,249,64>>,
    <<50,216,108,227>>, <<69,223,92,117>>, <<220,214,13,207>>, <<171,209,61,89>>,
    <<38,217,48,172>>, <<81,222,0,58>>, <<200,215,81,128>>, <<191,208,97,22>>,
    <<33,180,244,181>>, <<86,179,196,35>>, <<207,186,149,153>>, <<184,189,165,15>>,
    <<40,2,184,158>>, <<95,5,136,8>>, <<198,12,217,178>>, <<177,11,233,36>>,
    <<47,111,124,135>>, <<88,104,76,17>>, <<193,97,29,171>>, <<182,102,45,61>>,
    <<118,220,65,144>>, <<1,219,113,6>>, <<152,210,32,188>>, <<239,213,16,42>>,
    <<113,177,133,137>>, <<6,182,181,31>>, <<159,191,228,165>>, <<232,184,212,51>>,
    <<120,7,201,162>>, <<15,0,249,52>>, <<150,9,168,142>>, <<225,14,152,24>>,
    <<127,106,13,187>>, <<8,109,61,45>>, <<145,100,108,151>>, <<230,99,92,1>>,
    <<107,107,81,244>>, <<28,108,97,98>>, <<133,101,48,216>>, <<242,98,0,78>>,
    <<108,6,149,237>>, <<27,1,165,123>>, <<130,8,244,193>>, <<245,15,196,87>>,
    <<101,176,217,198>>, <<18,183,233,80>>, <<139,190,184,234>>, <<252,185,136,124>>,
    <<98,221,29,223>>, <<21,218,45,73>>, <<140,211,124,243>>, <<251,212,76,101>>,
    <<77,178,97,88>>, <<58,181,81,206>>, <<163,188,0,116>>, <<212,187,48,226>>,
    <<74,223,165,65>>, <<61,216,149,215>>, <<164,209,196,109>>, <<211,214,244,251>>,
    <<67,105,233,106>>, <<52,110,217,252>>, <<173,103,136,70>>, <<218,96,184,208>>,
    <<68,4,45,115>>, <<51,3,29,229>>, <<170,10,76,95>>, <<221,13,124,201>>,
    <<80,5,113,60>>, <<39,2,65,170>>, <<190,11,16,16>>, <<201,12,32,134>>,
    <<87,104,181,37>>, <<32,111,133,179>>, <<185,102,212,9>>, <<206,97,228,159>>,
    <<94,222,249,14>>, <<41,217,201,152>>, <<176,208,152,34>>, <<199,215,168,180>>,
    <<89,179,61,23>>, <<46,180,13,129>>, <<183,189,92,59>>, <<192,186,108,173>>,
    <<237,184,131,32>>, <<154,191,179,182>>, <<3,182,226,12>>, <<116,177,210,154>>,
    <<234,213,71,57>>, <<157,210,119,175>>, <<4,219,38,21>>, <<115,220,22,131>>,
    <<227,99,11,18>>, <<148,100,59,132>>, <<13,109,106,62>>, <<122,106,90,168>>,
    <<228,14,207,11>>, <<147,9,255,157>>, <<10,0,174,39>>, <<125,7,158,177>>,
    <<240,15,147,68>>, <<135,8,163,210>>, <<30,1,242,104>>, <<105,6,194,254>>,
    <<247,98,87,93>>, <<128,101,103,203>>, <<25,108,54,113>>, <<110,107,6,231>>,
    <<254,212,27,118>>, <<137,211,43,224>>, <<16,218,122,90>>, <<103,221,74,204>>,
    <<249,185,223,111>>, <<142,190,239,249>>, <<23,183,190,67>>, <<96,176,142,213>>,
    <<214,214,163,232>>, <<161,209,147,126>>, <<56,216,194,196>>, <<79,223,242,82>>,
    <<209,187,103,241>>, <<166,188,87,103>>, <<63,181,6,221>>, <<72,178,54,75>>,
    <<216,13,43,218>>, <<175,10,27,76>>, <<54,3,74,246>>, <<65,4,122,96>>,
    <<223,96,239,195>>, <<168,103,223,85>>, <<49,110,142,239>>, <<70,105,190,121>>,
    <<203,97,179,140>>, <<188,102,131,26>>, <<37,111,210,160>>, <<82,104,226,54>>,
    <<204,12,119,149>>, <<187,11,71,3>>, <<34,2,22,185>>, <<85,5,38,47>>,
    <<197,186,59,190>>, <<178,189,11,40>>, <<43,180,90,146>>, <<92,179,106,4>>,
    <<194,215,255,167>>, <<181,208,207,49>>, <<44,217,158,139>>, <<91,222,174,29>>,
    <<155,100,194,176>>, <<236,99,242,38>>, <<117,106,163,156>>, <<2,109,147,10>>,
    <<156,9,6,169>>, <<235,14,54,63>>, <<114,7,103,133>>, <<5,0,87,19>>,
    <<149,191,74,130>>, <<226,184,122,20>>, <<123,177,43,174>>, <<12,182,27,56>>,
    <<146,210,142,155>>, <<229,213,190,13>>, <<124,220,239,183>>, <<11,219,223,33>>,
    <<134,211,210,212>>, <<241,212,226,66>>, <<104,221,179,248>>, <<31,218,131,110>>,
    <<129,190,22,205>>, <<246,185,38,91>>, <<111,176,119,225>>, <<24,183,71,119>>,
    <<136,8,90,230>>, <<255,15,106,112>>, <<102,6,59,202>>, <<17,1,11,92>>,
    <<143,101,158,255>>, <<248,98,174,105>>, <<97,107,255,211>>, <<22,108,207,69>>,
    <<160,10,226,120>>, <<215,13,210,238>>, <<78,4,131,84>>, <<57,3,179,194>>,
    <<167,103,38,97>>, <<208,96,22,247>>, <<73,105,71,77>>, <<62,110,119,219>>,
    <<174,209,106,74>>, <<217,214,90,220>>, <<64,223,11,102>>, <<55,216,59,240>>,
    <<169,188,174,83>>, <<222,187,158,197>>, <<71,178,207,127>>, <<48,181,255,233>>,
    <<189,189,242,28>>, <<202,186,194,138>>, <<83,179,147,48>>, <<36,180,163,166>>,
    <<186,208,54,5>>, <<205,215,6,147>>, <<84,222,87,41>>, <<35,217,103,191>>,
    <<179,102,122,46>>, <<196,97,74,184>>, <<93,104,27,2>>, <<42,111,43,148>>,
    <<180,11,190,55>>, <<195,12,142,161>>, <<90,5,223,27>>, <<45,2,239,141>>>>

\* CheckSumStep with the data byte left out of the table index
CheckSumStepBlind(remainder, character) ==
  XorWord(ShiftRight8(remainder), crc_table[ByteOf(remainder, 0) + 1])

\* one iteration of the loop of CalculateCheckSum:
\* remainder = (remainder >> 8) ^ crc_table[(remainder ^ character) & 0xFF]
CheckSumStep(remainder, character) ==
  XorWord(ShiftRight8(remainder), crc_table[XorTable[ByteOf(remainder, 0)][character] + 1])

\* the loop of CalculateCheckSum, eight iterations at a time while eight remain
RECURSIVE CheckSumLoop(_, _, _)
CheckSumLoop(character_blob, byte, remainder) ==
  IF byte > Len(character_blob) \/ Len(remainder) # 4 THEN remainder
  ELSE IF byte + 7 <= Len(character_blob)
  THEN CheckSumLoop(character_blob, byte + 8,
         CheckSumStep(CheckSumStep(CheckSumStep(CheckSumStep(
         CheckSumStep(CheckSumStep(CheckSumStep(CheckSumStep(remainder,
           character_blob[byte]), character_blob[byte + 1]), character_blob[byte + 2]),
           character_blob[byte + 3]), character_blob[byte + 4]), character_blob[byte + 5]),
           character_blob[byte + 6]), character_blob[byte + 7]))
  ELSE CheckSumLoop(character_blob, byte + 1, CheckSumStep(remainder, character_blob[byte]))

CalculateCheckSum(character_blob) ==
  XorWord(CheckSumLoop(character_blob, 1, Ones32), Ones32)

\* ------------------------------------------------------- types and values
\* A type is [k |-> name, a |-> <<argument types>>]; a value is
\* [w |-> numeral or characters, e |-> <<element values>>].
TScalar(k) == [k |-> k, a |-> <<>>]
TUint64 == TScalar("uint64_t")
TUInt == TScalar("unsigned int")
TInt == TScalar("int")
TChar == TScalar("char")
TUChar == TScalar("unsigned char")
TFloat == TScalar("float")
TDouble == TScalar("double")
TString == TScalar("std::string")
TBool == TScalar("bool")
TPair(t1, t2) == [k |-> "std::pair", a |-> <<t1, t2>>]
TVector(t) == [k |-> "std::vector", a |-> <<t>>]
TMap(t1, t2) == [k |-> "std::map", a |-> <<t1, t2>>]
TQueue(t) == [k |-> "std::queue", a |-> <<t>>]
TStack(t) == [k |-> "std::stack", a |-> <<t>>]
\* std::array<t, n>, n >= 1: the argument list holds t once per element
TArray(t, n) == [k |-> "std::array", a |-> [i \in 1..n |-> t]]
TTuple(ts) == [k |-> "std::tuple", a |-> ts]

Scalar(w) == [w |-> w, e |-> <<>>]
Coll(e) == [w |-> <<>>, e |-> e]

\* sizeof(T) for the types pop_generic is instantiated with
SizeOf(ty) ==
  CASE ty.k = "uint64_t" -> 8
    [] ty.k = "double" -> 8
    [] ty.k = "unsigned int" -> 4
    [] ty.k = "int" -> 4
    [] ty.k = "float" -> 4
    [] OTHER -> 1

\* The elements of a std::stack (kept bottom to top) in the order a
\* top()/pop() loop visits them.
TopDown(s) == [i \in 1..Len(s) |-> s[Len(s) + 1 - i]]

\* The characters of a C string: those before the first '\0'.
RECURSIVE CStr(_, _)
CStr(chars, index) ==
  IF index > Len(chars) \/ chars[index] = 0 THEN SubSeq(chars, 1, index - 1)
  ELSE CStr(chars, index + 1)

\* ------------------------------------------------------------ push section
\* st is [binary_data, variable_lengths]; junk is what the four bytes after
\* a float object hold when push(float) reads eight bytes through a
\* uint64_t pointer.
push_uint64(data, st) ==
  [st EXCEPT !.binary_data =
     Append(@, <<ByteOf(data, 0), ByteOf(data, 1), ByteOf(data, 2), ByteOf(data, 3),
                 ByteOf(data, 4), ByteOf(data, 5), ByteOf(data, 6), ByteOf(data, 7)>>)]

push_uint(data, st) == push_uint64(Zero32 \o data, st)

push_int(data, st) ==
  push_uint64((IF data[1] >= 128 THEN Ones32 ELSE Zero32) \o data, st)

push_uchar(data, st) == [st EXCEPT !.binary_data = Append(@, <<data[1]>>)]

push_char(data, st) == push_uchar(data, st)

push_float(data, st, junk) == push_uint64(junk \o data, st)

push_double(data, st) == push_uint64(data, st)

push_cstr(data, st) == [st EXCEPT !.binary_data = Append(@, <<0>> \o data)]

push_string(data, st) == push_cstr(CStr(data, 1), st)

push_bool(data, st) == push_uint64(IF data[1] # 0 THEN ToU64(1) ELSE ToU64(0), st)

RECURSIVE push(_, _, _, _)
RECURSIVE push_each(_, _, _, _, _)

\* the range-for / drain loops of the push_* container methods
push_each(ty, elems, index, st, junk) ==
  IF index > Len(elems) THEN st
  ELSE push_each(ty, elems, index + 1, push(ty, elems[index], st, junk), junk)

push_pair(ty, data, st, junk) ==
  push(ty.a[2], data.e[2], push(ty.a[1], data.e[1], st, junk), junk)

push_array(ty, data_array, st, junk) ==
  LET done == push_each(ty.a[1], data_array.e, 1, st, junk)
  IN  [done EXCEPT !.variable_lengths = Append(@, ToU64(Len(ty.a)))]

\* push_tuple: the elements of the reversed tuple, in index order
RECURSIVE push_tuple(_, _, _, _, _)
push_tuple(ty, data, index, st, junk) ==
  IF index < 1 THEN st
  ELSE push_tuple(ty, data, index - 1, push(ty.a[index], data.e[index], st, junk), junk)

\* push_vector recording its count before it pushes the elements
push_vector_count_first(ty, data_vector, st, junk) ==
  push_each(ty.a[1], data_vector.e, 1,
            [st EXCEPT !.variable_lengths = Append(@, ToU64(Len(data_vector.e)))], junk)

push_vector(ty, data_vector, st, junk) ==
  LET done == push_each(ty.a[1], data_vector.e, 1, st, junk)
  IN  [done EXCEPT !.variable_lengths = Append(@, ToU64(Len(data_vector.e)))]

push_map(ty, data_map, st, junk) ==
  LET done == push_each(TPair(ty.a[1], ty.a[2]), data_map.e, 1, st, junk)
      counter == Len(data_map.e)
  IN  [done EXCEPT !.variable_lengths = Append(@, ToU64(counter))]

push_queue(ty, data_queue, st, junk) ==
  LET done == push_each(ty.a[1], data_queue.e, 1, st, junk)
      counter == Len(data_queue.e)
  IN  [done EXCEPT !.variable_lengths = Append(@, ToU64(counter))]

\* push_stack without the inversion: elements pushed top first
push_stack_top_first(ty, data_stack, st, junk) ==
  LET done == push_each(ty.a[1], TopDown(data_stack.e), 1, st, junk)
      counter == Len(data_stack.e)
  IN  [done EXCEPT !.variable_lengths = Append(@, ToU64(counter))]

push_stack(ty, data_stack, st, junk) ==
  LET stack_reversed == TopDown(data_stack.e)
      done == push_each(ty.a[1], TopDown(stack_reversed), 1, st, junk)
      counter == Len(stack_reversed)
  IN  [done EXCEPT !.variable_lengths = Append(@, ToU64(counter))]

push(ty, data, st, junk) ==
  CASE ty.k = "uint64_t" -> push_uint64(data.w, st)
    [] ty.k = "unsigned int" -> push_uint(data.w, st)
    [] ty.k = "int" -> push_int(data.w, st)
    [] ty.k = "char" -> push_char(data.w, st)
    [] ty.k = "unsigned char" -> push_uchar(data.w, st)
    [] ty.k = "float" -> push_float(data.w, st, junk)
    [] ty.k = "double" -> push_double(data.w, st)
    [] ty.k = "std::string" -> push_string(data.w, st)
    [] ty.k = "bool" -> push_bool(data.w, st)
    [] ty.k = "std::pair" -> push_pair(ty, data, st, junk)
    [] ty.k = "std::tuple" -> push_tuple(ty, data, Len(ty.a), st, junk)
    [] ty.k = "std::array" -> push_array(ty, data, st, junk)
    [] ty.k = "std::vector" -> push_vector(ty, data, st, junk)
    [] ty.k = "std::map" -> push_map(ty, data, st, junk)
    [] ty.k = "std::queue" -> push_queue(ty, data, st, junk)
    [] ty.k = "std::stack" -> push_stack(ty, data, st, junk)

\* ---------------------------------------------------- header ledger access
\* undef is the uint64_t an out-of-bounds read of the blob yields.
ReadSerializedBlob(offset, blob, undef) ==
  IF offset >= 0 /\ offset + 8 <= Len(blob)
  THEN [data |-> <<blob[offset + 8], blob[offset + 7], blob[offset + 6], blob[offset + 5],
                   blob[offset + 4], blob[offset + 3], blob[offset + 2], blob[offset + 1]>>,
        ub |-> FALSE]
  ELSE [data |-> undef, ub |-> TRUE]

WriteToOffset(data, offset, blob) ==
  IF offset >= 0 /\ offset + 8 <= Len(blob)
  THEN [blob |-> SubSeq(blob, 1, offset)
                   \o <<ByteOf(data, 0), ByteOf(data, 1), ByteOf(data, 2), ByteOf(data, 3),
                        ByteOf(data, 4), ByteOf(data, 5), ByteOf(data, 6), ByteOf(data, 7)>>
                   \o SubSeq(blob, offset + 9, Len(blob)),
        ub |-> FALSE]
  ELSE [blob |-> blob, ub |-> TRUE]

\* GetVariableLength reading one record too low
GetVariableLengthBelow(blob, undef) ==
  LET offset_counter == ReadSerializedBlob(0, blob, undef)
      length == ReadSerializedBlob(IntCast(Times8(DecWord(offset_counter.data, 8))), blob, undef)
  IN  [data |-> length.data, ub |-> offset_counter.ub \/ length.ub]

GetVariableLength(blob, undef) ==
  LET offset_counter == ReadSerializedBlob(0, blob, undef)
      length == ReadSerializedBlob(IntCast(Times8(offset_counter.data)), blob, undef)
  IN  [data |-> length.data, ub |-> offset_counter.ub \/ length.ub]

\* DecrementVariableLengthCounter not writing the counter back
DecrementVariableLengthCounterLost(blob, undef) ==
  LET offset_counter == ReadSerializedBlob(0, blob, undef)
  IN  [blob |-> blob, ub |-> offset_counter.ub]

DecrementVariableLengthCounter(blob, undef) ==
  LET offset_counter == ReadSerializedBlob(0, blob, undef)
      written == WriteToOffset(DecWord(offset_counter.data, 8), 0, blob)
  IN  [blob |-> written.blob, ub |-> offset_counter.ub \/ written.ub]

\* ------------------------------------------------------------- pop section
\* A pop yields [blob, thrown, ub, hang, val]: the blob it leaves, whether
\* std::out_of_range was thrown, whether it read or wrote outside the blob,
\* whether an element loop was still running after LoopCap iterations, and
\* the value returned (meaningful when nothing was thrown).
NoValue == [w |-> <<>>, e |-> <<>>]

Popped(blob, thrown, ub, hang, val) ==
  [blob |-> blob, thrown |-> thrown, ub |-> ub, hang |-> hang, val |-> val]

\* the bound checked against the raw blob length
PayloadExhaustedRaw(blob, shl) == Len(blob) <= 0

PayloadExhausted(blob, shl) == Len(blob) - shl <= 0

BackOf(blob, undef) == IF Len(blob) > 0 THEN blob[Len(blob)] ELSE undef[8]

PopBack(blob) == IF Len(blob) > 0 THEN SubSeq(blob, 1, Len(blob) - 1) ELSE blob

\* pop_generic's loop putting the bytes it took back before it throws
RECURSIVE pop_generic_loop_restoring(_, _, _, _, _, _)
pop_generic_loop_restoring(blob, shl, undef, index, data, ub) ==
  IF index < 0 THEN Popped(blob, FALSE, ub, FALSE, Scalar(data))
  ELSE IF PayloadExhausted(blob, shl)
       THEN Popped(blob \o [j \in 1..(7 - index) |-> data[8 - index - j]],
                   TRUE, ub, FALSE, NoValue)
  ELSE pop_generic_loop_restoring(PopBack(blob), shl, undef, index - 1,
                                  [data EXCEPT ![8 - index] = BackOf(blob, undef)],
                                  ub \/ Len(blob) = 0)

RECURSIVE pop_generic_loop(_, _, _, _, _, _)
pop_generic_loop(blob, shl, undef, index, data, ub) ==
  IF index < 0 THEN Popped(blob, FALSE, ub, FALSE, Scalar(data))
  ELSE IF PayloadExhausted(blob, shl) THEN Popped(blob, TRUE, ub, FALSE, NoValue)
  ELSE pop_generic_loop(PopBack(blob), shl, undef, index - 1,
                        [data EXCEPT ![8 - index] = BackOf(blob, undef)],
                        ub \/ Len(blob) = 0)

\* pop_generic<T> taking the high-order bytes of data
pop_generic_high(ty, blob, shl, undef) ==
  LET r == pop_generic_loop(blob, shl, undef, 7, Zero64, FALSE)
  IN  IF r.thrown THEN r
      ELSE [r EXCEPT !.val = Scalar(SubSeq(r.val.w, 1, SizeOf(ty)))]

\* pop_generic<T>: eight bytes off the tail, then *reinterpret_cast<T*>(&data)
pop_generic(ty, blob, shl, undef) ==
  LET r == pop_generic_loop(blob, shl, undef, 7, Zero64, FALSE)
  IN  IF r.thrown THEN r
      ELSE [r EXCEPT !.val = Scalar(SubSeq(r.val.w, 9 - SizeOf(ty), 8))]

\* pop(tag<char>) taking the last byte without the check against the header
pop_char_unchecked(blob, shl, undef) ==
  Popped(PopBack(blob), FALSE, Len(blob) = 0, FALSE, Scalar(<<BackOf(blob, undef)>>))

pop_char(blob, shl, undef) ==
  IF PayloadExhausted(blob, shl) THEN Popped(blob, TRUE, FALSE, FALSE, NoValue)
  ELSE Popped(PopBack(blob), FALSE, Len(blob) = 0, FALSE, Scalar(<<BackOf(blob, undef)>>))

pop_bool(blob, shl, undef) ==
  LET r == pop_generic(TUint64, blob, shl, undef)
  IN  IF r.thrown THEN r
      ELSE [r EXCEPT !.val = Scalar(IF r.val.w # Zero64 THEN <<1>> ELSE <<0>>)]

RECURSIVE pop_string_loop(_, _, _, _, _)
pop_string_loop(blob, shl, undef, char_array, ub) ==
  LET character == BackOf(blob, undef)
      nub == ub \/ Len(blob) = 0
  IN  IF character = 0
      THEN IF PayloadExhausted(blob, shl) THEN Popped(blob, TRUE, nub, FALSE, NoValue)
           ELSE Popped(PopBack(blob), FALSE, nub, FALSE, Scalar(TopDown(char_array)))
      ELSE IF PayloadExhausted(blob, shl) THEN Popped(blob, TRUE, nub, FALSE, NoValue)
      ELSE IF Len(blob) = 0 THEN Popped(blob, FALSE, TRUE, TRUE, NoValue)
      ELSE pop_string_loop(PopBack(blob), shl, undef, Append(char_array, character), nub)

pop_string(blob, shl, undef) == pop_string_loop(blob, shl, undef, <<>>, FALSE)

\* std::less on the key types the maps of the model use: numerals and
\* characters compare digit by digit, signed ones after flipping the sign bit.
RECURSIVE LexLess(_, _, _)
LexLess(x, y, i) ==
  IF i > Len(y) THEN FALSE
  ELSE IF i > Len(x) THEN TRUE
  ELSE IF x[i] # y[i] THEN x[i] < y[i]
  ELSE LexLess(x, y, i + 1)

Biased(ty, w) ==
  IF ty.k \in {"int", "char"} /\ Len(w) > 0 THEN [w EXCEPT ![1] = (@ + 128) % 256] ELSE w

KeyLess(ty, x, y) == LexLess(Biased(ty, x.w), Biased(ty, y.w), 1)

\* an insert that keeps arrival order instead of key order
MapInsertBack(kty, data_map, entry) ==
  IF \E i \in 1..Len(data_map) : data_map[i].e[1] = entry.e[1] THEN data_map
  ELSE Append(data_map, entry)

\* std::map::insert: an entry whose key is present is not inserted
MapInsert(kty, data_map, entry) ==
  IF \E i \in 1..Len(data_map) : data_map[i].e[1] = entry.e[1] THEN data_map
  ELSE LET before == Cardinality({i \in 1..Len(data_map) : KeyLess(kty, data_map[i].e[1], entry.e[1])})
       IN  SubSeq(data_map, 1, before) \o <<entry>> \o SubSeq(data_map, before + 1, Len(data_map))

\* index < length, index a size_t and length a uint64_t
IndexBelow(index, length) == IF IsSmall(length) THEN index < SmallVal(length) ELSE TRUE

RECURSIVE pop(_, _, _, _)
RECURSIVE pop_elements(_, _, _, _, _, _, _, _)

\* the element loop of vector_pop / map_pop / queue_pop / stack_pop
pop_elements(ty, blob, shl, undef, index, length, acc, ub) ==
  IF ~IndexBelow(index, length) THEN Popped(blob, FALSE, ub, FALSE, Coll(acc))
  ELSE IF index >= LoopCap THEN Popped(blob, FALSE, ub, TRUE, NoValue)
  ELSE LET entry == pop(ty, blob, shl, undef)
       IN  IF entry.thrown \/ entry.hang
           THEN [entry EXCEPT !.ub = @ \/ ub, !.val = NoValue]
           ELSE pop_elements(ty, entry.blob, shl, undef, index + 1, length,
                             Append(acc, entry.val), ub \/ entry.ub)

pair_pop(ty, blob, shl, undef) ==
  LET first == pop(ty.a[1], blob, shl, undef)
  IN  IF first.thrown \/ first.hang THEN [first EXCEPT !.val = NoValue]
      ELSE LET second == pop(ty.a[2], first.blob, shl, undef)
           IN  IF second.thrown \/ second.hang
               THEN [second EXCEPT !.ub = @ \/ first.ub, !.val = NoValue]
               ELSE [second EXCEPT !.ub = @ \/ first.ub,
                                   !.val = Coll(<<first.val, second.val>>)]

\* the element loop started at index 1
container_pop_short(ety, blob, shl, undef) ==
  LET length == GetVariableLength(blob, undef)
      body == pop_elements(ety, blob, shl, undef, 1, length.data, <<>>, length.ub)
  IN  IF body.thrown \/ body.hang THEN body
      ELSE LET dec == DecrementVariableLengthCounter(body.blob, undef)
           IN  [body EXCEPT !.blob = dec.blob, !.ub = @ \/ dec.ub]

\* vector_pop, queue_pop and stack_pop: read the record, pop that many
\* elements appending each to the container, then retire the record
container_pop(ety, blob, shl, undef) ==
  LET length == GetVariableLength(blob, undef)
      body == pop_elements(ety, blob, shl, undef, 0, length.data, <<>>, length.ub)
  IN  IF body.thrown \/ body.hang THEN body
      ELSE LET dec == DecrementVariableLengthCounter(body.blob, undef)
           IN  [body EXCEPT !.blob = dec.blob, !.ub = @ \/ dec.ub]

\* an element default-initialized and never assigned (indeterminate for the
\* arithmetic types, default-constructed otherwise)
Unassigned(ty, undef) ==
  IF ty.k \in {"std::string", "std::pair", "std::tuple", "std::array", "std::vector",
               "std::map", "std::queue", "std::stack"}
  THEN NoValue
  ELSE Scalar(SubSeq(undef, 9 - SizeOf(ty), 8))

\* array_pop: data_array[index] = pop<T1>() for each index below the record;
\* a record above T2 writes past the array, one below T2 leaves elements
\* unassigned
array_pop(ty, blob, shl, undef) ==
  LET r == container_pop(ty.a[1], blob, shl, undef)
      size == Len(ty.a)
  IN  IF r.thrown \/ r.hang THEN r
      ELSE [r EXCEPT
              !.ub = @ \/ Len(r.val.e) > size,
              !.val = Coll([index \in 1..size |->
                              IF index <= Len(r.val.e) THEN r.val.e[index]
                              ELSE Unassigned(ty.a[1], undef)])]

vector_pop(ty, blob, shl, undef) == container_pop(ty.a[1], blob, shl, undef)

queue_pop(ty, blob, shl, undef) == container_pop(ty.a[1], blob, shl, undef)

stack_pop(ty, blob, shl, undef) == container_pop(ty.a[1], blob, shl, undef)

RECURSIVE InsertAll(_, _, _, _)
InsertAll(kty, entries, index, data_map) ==
  IF index > Len(entries) THEN data_map
  ELSE InsertAll(kty, entries, index + 1, MapInsert(kty, data_map, entries[index]))

map_pop(ty, blob, shl, undef) ==
  LET r == container_pop(TPair(ty.a[1], ty.a[2]), blob, shl, undef)
  IN  IF r.thrown \/ r.hang THEN r
      ELSE [r EXCEPT !.val = Coll(InsertAll(ty.a[1], r.val.e, 1, <<>>))]

\* pop of a type other than std::tuple; a tuple is popped by tuple_pop
pop(ty, blob, shl, undef) ==
  CASE ty.k \in {"uint64_t", "unsigned int", "int", "float", "double"} ->
         pop_generic(ty, blob, shl, undef)
    [] ty.k \in {"char", "unsigned char"} -> pop_char(blob, shl, undef)
    [] ty.k = "bool" -> pop_bool(blob, shl, undef)
    [] ty.k = "std::string" -> pop_string(blob, shl, undef)
    [] ty.k = "std::pair" -> pair_pop(ty, blob, shl, undef)
    [] ty.k = "std::array" -> array_pop(ty, blob, shl, undef)
    [] ty.k = "std::vector" -> vector_pop(ty, blob, shl, undef)
    [] ty.k = "std::map" -> map_pop(ty, blob, shl, undef)
    [] ty.k = "std::queue" -> queue_pop(ty, blob, shl, undef)
    [] ty.k = "std::stack" -> stack_pop(ty, blob, shl, undef)


\* the pop<Values>() calls of a tuple pop, started at member index and
\* moving by step; each result is stored at its member's position
RECURSIVE pop_members(_, _, _, _, _, _, _, _)
pop_members(ty, blob, shl, undef, index, step, members, ub) ==
  IF index < 1 \/ index > Len(ty.a) THEN Popped(blob, FALSE, ub, FALSE, Coll(members))
  ELSE LET member == pop(ty.a[index], blob, shl, undef)
       IN  IF member.thrown \/ member.hang
           THEN [member EXCEPT !.ub = @ \/ ub, !.val = NoValue]
           ELSE pop_members(ty, member.blob, shl, undef, index + step, step,
                            [members EXCEPT ![index] = member.val], ub \/ member.ub)

\* pop(tag<std::tuple<Values...>>): std::make_tuple(pop<Values>()...); the
\* order in which the arguments of a call are evaluated is unspecified, and
\* forward says whether this build evaluates them first to last
tuple_pop(ty, blob, shl, undef, forward) ==
  IF forward
  THEN pop_members(ty, blob, shl, undef, 1, 1, [index \in 1..Len(ty.a) |-> NoValue], FALSE)
  ELSE pop_members(ty, blob, shl, undef, Len(ty.a), -1,
                   [index \in 1..Len(ty.a) |-> NoValue], FALSE)
\* ------------------------------------------------------------------- state
VARIABLES
  variable_lengths,          \* std::vector<uint64_t>: the ledger
  binary_data,               \* std::stack of chunks, bottom first
  original_serialized_blob,
  serialized_blob,
  checksum,                  \* uint32_t numeral
  serialized_header_length,  \* uint64_t numeral
  file,                      \* the one file the caller uses: [exists, bytes]
  pushed,                    \* caller: <<type, value>> of every push now staged
  written,                   \* caller: what the last successful file write held
  script,                    \* caller: what serialized_blob was built from, pops since
  result,                    \* caller: outcome of the last call
  nPush                      \* caller: pushes made in this behaviour

vars == <<variable_lengths, binary_data, original_serialized_blob, serialized_blob,
          checksum, serialized_header_length, file, pushed, written, script, result, nPush>>

\* values an uninitialized member may hold after SerializeQueue() {}
UninitCheckSum == {Zero32, <<222, 173, 190, 239>>}
UninitHeaderLength == {Zero64, ToU64(16)}
\* what push(float) may find in the four bytes after the float
FloatJunk == {Zero32, <<202, 254, 186, 190>>}
\* what a read outside the blob may yield
UndefReads == {Zero64, Ones64}

\* the caller's record of a call: what was called, how it ended, what it
\* returned, (for Serialize() and Deserialize) which call came before it, and
\* (for Serialize()) from how many pushes the blob it replaces had been
\* built, -1 if that blob was not built by this instance
NoCall ==
  [op |-> "none", status |-> "ok", ty |-> TBool, val |-> NoValue, buf |-> <<>>,
   flag |-> FALSE, ub |-> FALSE, hang |-> FALSE, prev |-> "none", rebuilt |-> -1]

Outcome(op, status) == [NoCall EXCEPT !.op = op, !.status = status]

Script(kind, vals) == [kind |-> kind, vals |-> vals, idx |-> 0, bad |-> 0]

Init ==
  /\ variable_lengths = <<>>
  /\ binary_data = <<>>
  /\ original_serialized_blob = <<>>
  /\ serialized_blob = <<>>
  /\ checksum \in UninitCheckSum
  /\ serialized_header_length \in UninitHeaderLength
  /\ file = [exists |-> FALSE, bytes |-> <<>>]
  /\ pushed = <<>>
  /\ written = [vals |-> <<>>, buf |-> <<>>, sum |-> Zero32, flipped |-> FALSE]
  /\ script = Script("none", <<>>)
  /\ result = NoCall
  /\ nPush = 0

\* ------------------------------------------------------------- operations
\* push<T>(data)
Push(ty, data, junk, max) ==
  /\ nPush < max
  /\ LET st == push(ty, data,
                    [binary_data |-> binary_data, variable_lengths |-> variable_lengths],
                    junk)
     IN  /\ binary_data' = st.binary_data
         /\ variable_lengths' = st.variable_lengths
  /\ pushed' = Append(pushed, <<ty, data>>)
  /\ nPush' = nPush + 1
  /\ result' = Outcome("push", "ok")
  /\ UNCHANGED <<original_serialized_blob, serialized_blob, checksum,
                 serialized_header_length, file, written, script>>

\* PushToSerializedBlob writing the most significant byte first
PushToSerializedBlobHighFirst(data) ==
  <<ByteOf(data, 7), ByteOf(data, 6), ByteOf(data, 5), ByteOf(data, 4),
    ByteOf(data, 3), ByteOf(data, 2), ByteOf(data, 1), ByteOf(data, 0)>>

\* PushToSerializedBlob
PushToSerializedBlob(data) ==
  <<ByteOf(data, 0), ByteOf(data, 1), ByteOf(data, 2), ByteOf(data, 3),
    ByteOf(data, 4), ByteOf(data, 5), ByteOf(data, 6), ByteOf(data, 7)>>

RECURSIVE Flatten(_, _)
Flatten(seqs, index) ==
  IF index > Len(seqs) THEN <<>> ELSE seqs[index] \o Flatten(seqs, index + 1)

\* (unsigned int) of a uint64_t numeral that is below 2^31
LowWord(w) == w[5] * 16777216 + w[6] * 65536 + w[7] * 256 + w[8]

\* Serialize() appending the staged chunks oldest first
SerializeBlobForward(original, lengths, staged) ==
  LET new_records ==
        Flatten([index \in 1..Len(lengths) |->
                   PushToSerializedBlob(lengths[Len(lengths) + 1 - index])], 1)
  IN  PushToSerializedBlob(ToU64(Len(lengths))) \o new_records \o Flatten(staged, 1)

\* Serialize(): the blob it builds from the members
SerializeBlob(original, lengths, staged) ==
  LET original_header_length ==
        IF Len(original) > 0 THEN LowWord(ReadSerializedBlob(0, original, Zero64).data) ELSE 0
      new_header_length == original_header_length + Len(lengths)
      old_records ==
        IF original_header_length > 0
        THEN SubSeq(original, 9, (original_header_length + 1) * 8)
        ELSE <<>>
      new_records ==
        Flatten([index \in 1..Len(lengths) |->
                   PushToSerializedBlob(lengths[Len(lengths) + 1 - index])], 1)
      old_data == SubSeq(original, (new_header_length + 1) * 8 + 1, Len(original))
      new_data == Flatten(TopDown(staged), 1)
  IN  PushToSerializedBlob(ToU64(new_header_length)) \o old_records \o new_records
        \o old_data \o new_data

Rebuilt == IF script.kind = "built" THEN Len(script.vals) ELSE -1

\* Serialize() draining the staged chunks and the ledger it serializes
SerializeDraining ==
  /\ serialized_blob' = SerializeBlob(original_serialized_blob, variable_lengths, binary_data)
  /\ binary_data' = <<>>
  /\ variable_lengths' = <<>>
  /\ script' = Script("built", pushed)
  /\ result' = [Outcome("Serialize", "ok") EXCEPT !.buf = serialized_blob',
                                                   !.prev = result.op,
                                                   !.rebuilt = Rebuilt]
  /\ UNCHANGED <<original_serialized_blob, checksum,
                 serialized_header_length, file, pushed, written, nPush>>

\* Serialize() without its opening serialized_blob.clear()
SerializeNoClear ==
  /\ serialized_blob' =
       serialized_blob \o SerializeBlob(original_serialized_blob, variable_lengths, binary_data)
  /\ script' = Script("built", pushed)
  /\ result' = [Outcome("Serialize", "ok") EXCEPT !.buf = serialized_blob',
                                                   !.prev = result.op,
                                                   !.rebuilt = Rebuilt]
  /\ UNCHANGED <<variable_lengths, binary_data, original_serialized_blob, checksum,
                 serialized_header_length, file, pushed, written, nPush>>

\* std::vector<unsigned char> Serialize()
Serialize ==
  /\ serialized_blob' = SerializeBlob(original_serialized_blob, variable_lengths, binary_data)
  /\ script' = Script("built", pushed)
  /\ result' = [Outcome("Serialize", "ok") EXCEPT !.buf = serialized_blob',
                                                   !.prev = result.op,
                                                   !.rebuilt = Rebuilt]
  /\ UNCHANGED <<variable_lengths, binary_data, original_serialized_blob, checksum,
                 serialized_header_length, file, pushed, written, nPush>>

\* the checksum written most significant byte first
FileImageHighFirst(sum, blob) ==
  <<ByteOf(sum, 3), ByteOf(sum, 2), ByteOf(sum, 1), ByteOf(sum, 0)>> \o blob

\* the four checksum bytes and the blob, as Serialize(file_name) writes them
FileImage(sum, blob) ==
  <<ByteOf(sum, 0), ByteOf(sum, 1), ByteOf(sum, 2), ByteOf(sum, 3)>> \o blob

\* std::vector<unsigned char> Serialize(std::string const& file_name);
\* opened is whether the std::ofstream could be opened
SerializeFile(opened) ==
  /\ serialized_blob' = SerializeBlob(original_serialized_blob, variable_lengths, binary_data)
  /\ script' = Script("built", pushed)
  /\ LET sum == CalculateCheckSum(serialized_blob')
     IN  IF opened
         THEN /\ file' = [exists |-> TRUE, bytes |-> FileImage(sum, serialized_blob')]
              /\ written' = [vals |-> pushed, buf |-> serialized_blob', sum |-> sum,
                             flipped |-> FALSE]
              /\ result' = [Outcome("SerializeFile", "ok") EXCEPT !.buf = serialized_blob']
         ELSE /\ result' = Outcome("SerializeFile", "io_failure")
              /\ UNCHANGED <<file, written>>
  /\ UNCHANGED <<variable_lengths, binary_data, original_serialized_blob, checksum,
                 serialized_header_length, pushed, nPush>>

\* Clear() leaving the ledger as it is
ClearKeepsLedger ==
  /\ binary_data' = <<>>
  /\ original_serialized_blob' = <<>>
  /\ serialized_blob' = <<>>
  /\ pushed' = <<>>
  /\ script' = Script("none", <<>>)
  /\ result' = Outcome("Clear", "ok")
  /\ UNCHANGED <<variable_lengths, checksum, serialized_header_length, file, written, nPush>>

\* void Clear()
Clear ==
  /\ variable_lengths' = <<>>
  /\ binary_data' = <<>>
  /\ original_serialized_blob' = <<>>
  /\ serialized_blob' = <<>>
  /\ pushed' = <<>>
  /\ script' = Script("none", <<>>)
  /\ result' = Outcome("Clear", "ok")
  /\ UNCHANGED <<checksum, serialized_header_length, file, written, nPush>>

\* the uint32_t Deserialize assembles from the first four bytes of the file
StoredCheckSum(bytes) == <<bytes[4], bytes[3], bytes[2], bytes[1]>>

\* the serialized_header_length Deserialize derives from the first eight bytes
\* the header length counted without the counter's own 8 bytes
HeaderLengthNoCounter(blob) ==
  Times8(<<blob[8], blob[7], blob[6], blob[5], blob[4], blob[3], blob[2], blob[1]>>)

HeaderLength(blob) ==
  Times8(IncWord(<<blob[8], blob[7], blob[6], blob[5], blob[4], blob[3], blob[2], blob[1]>>, 8))

\* Deserialize calling Clear() only once the file is open
DeserializeClearLate(opened) ==
  /\ opened => file.exists
  /\ IF opened
     THEN /\ variable_lengths' = <<>>
          /\ binary_data' = <<>>
          /\ original_serialized_blob' = <<>>
          /\ pushed' = <<>>
          /\ checksum' = StoredCheckSum(file.bytes)
          /\ serialized_blob' = SubSeq(file.bytes, 5, Len(file.bytes))
          /\ serialized_header_length' = HeaderLength(serialized_blob')
          /\ script' = Script("loaded", written.vals)
          /\ result' = [Outcome("Deserialize", "ok") EXCEPT !.prev = result.op]
     ELSE /\ result' = [Outcome("Deserialize", "io_failure") EXCEPT !.prev = result.op]
          /\ UNCHANGED <<variable_lengths, binary_data, original_serialized_blob, pushed,
                         serialized_blob, script, checksum, serialized_header_length>>
  /\ UNCHANGED <<file, written, nPush>>

\* void Deserialize(std::string const& file_name);
\* opened is whether the std::ifstream could be opened
Deserialize(opened) ==
  /\ opened => file.exists
  /\ variable_lengths' = <<>>
  /\ binary_data' = <<>>
  /\ original_serialized_blob' = <<>>
  /\ pushed' = <<>>
  /\ IF opened
     THEN /\ checksum' = StoredCheckSum(file.bytes)
          /\ serialized_blob' = SubSeq(file.bytes, 5, Len(file.bytes))
          /\ serialized_header_length' = HeaderLength(serialized_blob')
          /\ script' = Script("loaded", written.vals)
          /\ result' = [Outcome("Deserialize", "ok") EXCEPT !.prev = result.op]
     ELSE /\ serialized_blob' = <<>>
          /\ script' = Script("none", <<>>)
          /\ result' = [Outcome("Deserialize", "io_failure") EXCEPT !.prev = result.op]
          /\ UNCHANGED <<checksum, serialized_header_length>>
  /\ UNCHANGED <<file, written, nPush>>

\* bool ValidateData()
ValidateData ==
  /\ result' = [Outcome("ValidateData", "ok") EXCEPT
                  !.flag = (CalculateCheckSum(serialized_blob) = checksum)]
  /\ UNCHANGED <<variable_lengths, binary_data, original_serialized_blob, serialized_blob,
                 checksum, serialized_header_length, file, pushed, written, script, nPush>>

\* the type the caller pushed at the position the next pop reads
Expected == IF script.idx < Len(script.vals) THEN script.vals[script.idx + 1] ELSE <<>>

Matches(ty) == Expected # <<>> /\ Expected[1] = ty

\* a pop<T>() that ends as r; the caller makes at most slack pops that do
\* not follow the pushed types
PopEnding(ty, r, slack) ==
  /\ script.idx < Len(script.vals) + slack
  /\ Matches(ty) \/ script.bad < slack
  /\ serialized_blob' = r.blob
  /\ result' = [Outcome("pop", IF r.thrown THEN "out_of_range" ELSE "ok") EXCEPT
                  !.ty = ty, !.val = r.val, !.ub = r.ub, !.hang = r.hang]
  /\ script' = [script EXCEPT !.idx = @ + 1,
                              !.bad = IF Matches(ty) THEN @ ELSE @ + 1]
  /\ UNCHANGED <<variable_lengths, binary_data, original_serialized_blob, checksum,
                 serialized_header_length, file, pushed, written, nPush>>

\* T pop<T>()
Pop(ty, undef) ==
  PopEnding(ty, pop(ty, serialized_blob, IntCast(serialized_header_length), undef),
            MaxMistyped)

\* pop<std::tuple<Values...>>()
PopTuple(ty, undef, forward) ==
  PopEnding(ty, tuple_pop(ty, serialized_blob, IntCast(serialized_header_length), undef,
                          forward),
            MaxMistyped)

\* one bit of the file after the checksum field is inverted on disk
FlipBit(position, bit) ==
  /\ file.exists
  /\ ~written.flipped
  /\ position > 4 /\ position <= Len(file.bytes)
  /\ file' = [file EXCEPT !.bytes[position] = XorTable[@][2^bit]]
  /\ written' = [written EXCEPT !.flipped = TRUE]
  /\ result' = Outcome("flip", "ok")
  /\ UNCHANGED <<variable_lengths, binary_data, original_serialized_blob, serialized_blob,
                 checksum, serialized_header_length, pushed, script, nPush>>

\* ------------------------------------------------------ callers and menus
Int32(a, b, c, d) == Scalar(<<a, b, c, d>>)
Text(chars) == Scalar(chars)
Bob == Text(<<66, 111, 98>>)
Jim == Text(<<74, 105, 109>>)
Pair(x, y) == Coll(<<x, y>>)
\* a std::map filled by inserting the entries in the order given
MapOf(kty, entries) == Coll(InsertAll(kty, entries, 1, <<>>))
Double14 == Scalar(<<63, 246, 102, 102, 102, 102, 102, 102>>)

\* the round-trip caller: push, write the file once, load it, validate, pop
Staging == ~file.exists /\ script.kind = "none"

WriteOnce == ~file.exists /\ \E opened \in BOOLEAN : SerializeFile(opened)

LoadWritten ==
  /\ file.exists
  /\ script.kind \in {"built", "none"}
  /\ \E opened \in BOOLEAN : Deserialize(opened)

\* ValidateData is documented for use right after Deserialize only
ValidateLoaded == script.kind = "loaded" /\ script.idx = 0 /\ ValidateData

\* pop<T>() with the type that was pushed at this position
PopTyped ==
  /\ script.kind = "loaded"
  /\ Expected # <<>>
  /\ \E undef \in UndefReads : Pop(Expected[1], undef)

FromMenu(menu, max) ==
  \E i \in 1..Len(menu), junk \in FloatJunk : Push(menu[i][1], menu[i][2], junk, max)

\* --- Spec: any call in any order, a small menu of mixed widths
MixMenu == <<
  <<TUint64, Scalar(<<1, 2, 3, 4, 5, 6, 7, 8>>)>>,
  <<TChar, Scalar(<<65>>)>>,
  <<TString, Bob>>,
  <<TVector(TInt), Coll(<<Int32(0, 0, 0, 7)>>)>> >>

MixTypes == {TUint64, TChar, TString, TVector(TInt)}

PushMix == FromMenu(MixMenu, MaxPush)

SerializeToFile == \E opened \in BOOLEAN : SerializeFile(opened)

DeserializeFile == \E opened \in BOOLEAN : Deserialize(opened)

PopMix == \E ty \in MixTypes, undef \in UndefReads : Pop(ty, undef)

Next ==
  \/ PushMix
  \/ Serialize
  \/ SerializeToFile
  \/ DeserializeFile
  \/ ValidateLoaded
  \/ PopMix
  \/ Clear

Spec == Init /\ [][Next]_vars

\* --- SpecOrder: one value of every scalar type of the order claim
OrderMenu == <<
  <<TUint64, Scalar(<<1, 2, 3, 4, 5, 6, 7, 8>>)>>,
  <<TInt, Int32(255, 255, 255, 254)>>,
  <<TUInt, Int32(128, 0, 3, 255)>>,
  <<TBool, Scalar(<<1>>)>>,
  <<TChar, Scalar(<<65>>)>>,
  <<TUChar, Scalar(<<200>>)>>,
  <<TString, Bob>> >>

PushOrder == Staging /\ FromMenu(OrderMenu, MaxOrderPush)

NextOrder == PushOrder \/ WriteOnce \/ LoadWritten \/ ValidateLoaded \/ PopTyped

SpecOrder == Init /\ [][NextOrder]_vars

\* --- SpecScalar: several values of every scalar type
ScalarMenu == <<
  <<TUint64, Scalar(<<1, 2, 3, 4, 5, 6, 7, 8>>)>>,
  <<TUint64, Scalar(Ones64)>>,
  <<TInt, Int32(255, 255, 255, 254)>>,
  <<TInt, Int32(0, 0, 0, 5)>>,
  <<TUInt, Int32(128, 0, 3, 255)>>,
  <<TBool, Scalar(<<1>>)>>,
  <<TBool, Scalar(<<0>>)>>,
  <<TChar, Scalar(<<65>>)>>,
  <<TChar, Scalar(<<0>>)>>,
  <<TUChar, Scalar(<<200>>)>>,
  <<TString, Text(<<>>)>>,
  <<TString, Bob>>,
  <<TString, Text(<<97, 0, 98>>)>>,
  <<TFloat, Int32(63, 192, 0, 0)>>,
  <<TDouble, Double14>>,
  <<TDouble, Scalar(<<128, 0, 0, 0, 0, 0, 0, 0>>)>> >>

PushScalar == Staging /\ FromMenu(ScalarMenu, MaxScalarPush)

NextScalar == PushScalar \/ WriteOnce \/ LoadWritten \/ ValidateLoaded \/ PopTyped

SpecScalar == Init /\ [][NextScalar]_vars

\* --- SpecReadme: the values of the README example
Row(a, b, c) == Coll(<<Int32(0, 0, 0, a), Int32(0, 0, 0, b), Int32(0, 0, 0, c)>>)

high_scores ==
  MapOf(TString, <<Pair(Jim, Int32(0, 0, 3, 164)), Pair(Bob, Int32(0, 0, 3, 255))>>)

game_map == Coll(<<Row(1, 0, 0), Row(0, 1, 0), Row(0, 1, 1)>>)

game_version == Double14

ReadmeMenu == <<
  <<TMap(TString, TUInt), high_scores>>,
  <<TVector(TVector(TInt)), game_map>>,
  <<TDouble, game_version>> >>

PushReadme == Staging /\ FromMenu(ReadmeMenu, MaxReadmePush)

NextReadme == PushReadme \/ WriteOnce \/ LoadWritten \/ ValidateLoaded \/ PopTyped

SpecReadme == Init /\ [][NextReadme]_vars

\* --- SpecNest: lists of lists
IntVec(ns) == Coll([i \in 1..Len(ns) |-> Int32(0, 0, 0, ns[i])])

NestMenu == <<
  <<TVector(TVector(TInt)), Coll(<<IntVec(<<5, 6>>), IntVec(<<7, 8>>)>>)>>,
  <<TVector(TVector(TInt)), Coll(<<IntVec(<<1, 2>>)>>)>>,
  <<TVector(TVector(TInt)), Coll(<<IntVec(<<1>>), IntVec(<<2>>)>>)>>,
  <<TVector(TVector(TInt)), Coll(<<IntVec(<<>>)>>)>>,
  <<TVector(TVector(TInt)), Coll(<<>>)>>,
  <<TInt, Int32(0, 0, 0, 9)>>,
  <<TChar, Scalar(<<65>>)>> >>

PushNest == Staging /\ FromMenu(NestMenu, MaxNestPush)

NextNest == PushNest \/ WriteOnce \/ LoadWritten \/ ValidateLoaded \/ PopTyped

SpecNest == Init /\ [][NextNest]_vars

\* --- SpecColl: flat containers of scalars
CollMenu == <<
  <<TVector(TInt), IntVec(<<>>)>>,
  <<TVector(TInt), IntVec(<<7>>)>>,
  <<TVector(TInt), IntVec(<<1, 2, 3>>)>>,
  <<TVector(TString), Coll(<<Bob, Text(<<>>), Jim>>)>>,
  <<TQueue(TInt), IntVec(<<>>)>>,
  <<TQueue(TInt), IntVec(<<4>>)>>,
  <<TQueue(TChar), Coll(<<Scalar(<<65>>), Scalar(<<66>>), Scalar(<<67>>)>>)>>,
  <<TStack(TInt), IntVec(<<>>)>>,
  <<TStack(TInt), IntVec(<<1, 2, 3>>)>>,
  <<TStack(TString), Coll(<<Bob, Jim>>)>>,
  <<TMap(TString, TUInt), MapOf(TString, <<>>)>>,
  <<TMap(TString, TUInt), high_scores>>,
  <<TMap(TInt, TString),
    MapOf(TInt, <<Pair(Int32(0, 0, 0, 3), Bob), Pair(Int32(255, 255, 255, 255), Jim),
                  Pair(Int32(0, 0, 1, 0), Text(<<>>))>>)>>,
  <<TInt, Int32(0, 0, 0, 9)>>,
  <<TString, Jim>> >>

PushColl == Staging /\ FromMenu(CollMenu, MaxCollPush)

NextColl == PushColl \/ WriteOnce \/ LoadWritten \/ ValidateLoaded \/ PopTyped

SpecColl == Init /\ [][NextColl]_vars

\* --- SpecTamper: one bit of the written file is inverted before the load
TamperMenu == <<
  <<TUint64, Scalar(<<1, 2, 3, 4, 5, 6, 7, 8>>)>>,
  <<TChar, Scalar(<<65>>)>>,
  <<TString, Bob>>,
  <<TVector(TUChar), Coll(<<Scalar(<<200>>)>>)>> >>

PushTamper == Staging /\ FromMenu(TamperMenu, MaxTamperPush)

FlipOneBit ==
  /\ script.kind = "built"
  /\ \E position \in 5..Len(file.bytes), bit \in 0..7 : FlipBit(position, bit)

NextTamper == PushTamper \/ WriteOnce \/ FlipOneBit \/ LoadWritten \/ ValidateLoaded

SpecTamper == Init /\ [][NextTamper]_vars

\* --- SpecPop: pops of any fixed-width scalar type, whatever was pushed
PopMenu == <<
  <<TUint64, Scalar(<<1, 2, 3, 4, 5, 6, 7, 8>>)>>,
  <<TChar, Scalar(<<65>>)>>,
  <<TString, Bob>>,
  <<TVector(TUChar), Coll(<<Scalar(<<200>>)>>)>> >>

FixedWidthTypes == {TUint64, TInt, TUInt, TFloat, TDouble, TBool, TChar, TUChar}

PushPop == Staging /\ FromMenu(PopMenu, MaxPopPush)

PopFixed ==
  /\ script.kind = "loaded"
  /\ \E ty \in FixedWidthTypes, undef \in UndefReads : Pop(ty, undef)

NextPop == PushPop \/ WriteOnce \/ LoadWritten \/ ValidateLoaded \/ PopTyped \/ PopFixed

SpecPop == Init /\ [][NextPop]_vars


ScalarKinds == {TUint64, TUInt, TInt, TBool, TChar, TUChar, TString, TFloat, TDouble}

\* --- SpecDry: after the typed pops, one more pop of any type
DryMenu == <<
  <<TChar, Scalar(<<65>>)>>,
  <<TString, Bob>>,
  <<TVector(TInt), Coll(<<>>)>>,
  <<TVector(TInt), Coll(<<Int32(0, 0, 0, 7)>>)>> >>

DryTypes ==
  ScalarKinds \cup
  {TPair(TInt, TChar), TArray(TInt, 2), TVector(TInt), TMap(TInt, TString),
   TQueue(TChar), TStack(TInt)}

PushDry == Staging /\ FromMenu(DryMenu, MaxDryPush)

PopAny ==
  /\ script.kind = "loaded"
  /\ \E ty \in DryTypes, undef \in UndefReads : Pop(ty, undef)

NextDry == PushDry \/ WriteOnce \/ LoadWritten \/ ValidateLoaded \/ PopTyped \/ PopAny

SpecDry == Init /\ [][NextDry]_vars

\* --- SpecLife: any call in any order on one instance, two values
LifeMenu == <<
  <<TChar, Scalar(<<65>>)>>,
  <<TVector(TInt), Coll(<<Int32(0, 0, 0, 7)>>)>> >>

LifeTypes == {TChar, TVector(TInt)}

PushLife == FromMenu(LifeMenu, MaxLifePush)

PopLife == \E ty \in LifeTypes, undef \in UndefReads : Pop(ty, undef)

NextLife ==
  \/ PushLife
  \/ Serialize
  \/ SerializeToFile
  \/ DeserializeFile
  \/ PopLife
  \/ Clear

SpecLife == Init /\ [][NextLife]_vars

\* --- SpecLedger: a push-only instance, nested and fixed-size collections
LedgerMenu == <<
  <<TChar, Scalar(<<65>>)>>,
  <<TUint64, Scalar(<<1, 2, 3, 4, 5, 6, 7, 8>>)>>,
  <<TString, Bob>>,
  <<TPair(TInt, TChar), Pair(Int32(0, 0, 0, 5), Scalar(<<66>>))>>,
  <<TTuple(<<TInt, TChar, TString>>), Coll(<<Int32(0, 0, 0, 6), Scalar(<<67>>), Jim>>)>>,
  <<TTuple(<<TVector(TInt), TQueue(TChar)>>),
    Coll(<<IntVec(<<1, 2, 3>>), Coll(<<Scalar(<<68>>)>>)>>)>>,
  <<TArray(TInt, 2), IntVec(<<1, 2>>)>>,
  <<TVector(TInt), Coll(<<>>)>>,
  <<TVector(TVector(TInt)), Coll(<<IntVec(<<1, 2>>), IntVec(<<3>>)>>)>>,
  <<TMap(TString, TUInt), high_scores>>,
  <<TQueue(TChar), Coll(<<Scalar(<<65>>), Scalar(<<66>>), Scalar(<<67>>)>>)>>,
  <<TStack(TArray(TInt, 2)), Coll(<<IntVec(<<1, 2>>), IntVec(<<3, 4>>)>>)>> >>

PushLedger == FromMenu(LedgerMenu, MaxLedgerPush)

NextLedger == PushLedger \/ Serialize

SpecLedger == Init /\ [][NextLedger]_vars

\* --- SpecTuple: tuples of scalars
TupleMenu == <<
  <<TTuple(<<TInt, TChar>>), Coll(<<Int32(0, 0, 0, 5), Scalar(<<65>>)>>)>>,
  <<TTuple(<<TChar, TChar>>), Coll(<<Scalar(<<65>>), Scalar(<<66>>)>>)>>,
  <<TTuple(<<TChar, TChar>>), Coll(<<Scalar(<<67>>), Scalar(<<67>>)>>)>>,
  <<TTuple(<<TInt, TChar, TString>>), Coll(<<Int32(0, 0, 0, 6), Scalar(<<67>>), Jim>>)>>,
  <<TTuple(<<TUint64>>), Coll(<<Scalar(<<1, 2, 3, 4, 5, 6, 7, 8>>)>>)>>,
  <<TChar, Scalar(<<68>>)>> >>

PushTuple == Staging /\ FromMenu(TupleMenu, MaxTuplePush)

PopTypedScalar ==
  /\ Expected # <<>>
  /\ Expected[1].k # "std::tuple"
  /\ PopTyped

PopTypedTuple ==
  /\ script.kind = "loaded"
  /\ Expected # <<>>
  /\ Expected[1].k = "std::tuple"
  /\ \E undef \in UndefReads, forward \in BOOLEAN : PopTuple(Expected[1], undef, forward)

NextTuple ==
  \/ PushTuple
  \/ WriteOnce
  \/ LoadWritten
  \/ ValidateLoaded
  \/ PopTypedScalar
  \/ PopTypedTuple

SpecTuple == Init /\ [][NextTuple]_vars

\* --- SpecDup: lists of pairs, some with a repeated key, popped as maps
IntChar(n, c) == Pair(Int32(0, 0, 0, n), Scalar(<<c>>))

DupMenu == <<
  <<TVector(TPair(TInt, TChar)), Coll(<<IntChar(1, 65), IntChar(1, 66)>>)>>,
  <<TVector(TPair(TInt, TChar)), Coll(<<IntChar(1, 65), IntChar(2, 66), IntChar(1, 67)>>)>>,
  <<TVector(TPair(TInt, TChar)), Coll(<<IntChar(2, 66), IntChar(1, 65)>>)>>,
  <<TVector(TPair(TInt, TChar)), Coll(<<>>)>>,
  <<TMap(TInt, TChar), MapOf(TInt, <<IntChar(2, 66), IntChar(1, 65)>>)>>,
  <<TChar, Scalar(<<68>>)>> >>

PushDup == Staging /\ FromMenu(DupMenu, MaxDupPush)

PopAsMap ==
  /\ script.kind = "loaded"
  /\ Expected # <<>>
  /\ Expected[1] = TVector(TPair(TInt, TChar))
  /\ \E undef \in UndefReads : Pop(TMap(TInt, TChar), undef)

NextDup == PushDup \/ WriteOnce \/ LoadWritten \/ ValidateLoaded \/ PopTyped \/ PopAsMap

SpecDup == Init /\ [][NextDup]_vars

\* --- SpecWild: after the load, pops of any type in any order; every value
\* of the menu stages at most two bytes, so that a payload is shorter than
\* LoopCap
WildMenu == <<
  <<TChar, Scalar(<<65>>)>>,
  <<TString, Text(<<>>)>>,
  <<TString, Text(<<66>>)>>,
  <<TVector(TChar), Coll(<<>>)>>,
  <<TVector(TChar), Coll(<<Scalar(<<65>>), Scalar(<<66>>)>>)>>,
  <<TQueue(TUChar), Coll(<<Scalar(<<7>>)>>)>>,
  <<TMap(TChar, TChar), MapOf(TChar, <<Pair(Scalar(<<65>>), Scalar(<<66>>))>>)>> >>

WildTypes ==
  {TUint64, TInt, TBool, TChar, TUChar, TString,
   TVector(TChar), TQueue(TUChar), TStack(TChar), TMap(TChar, TChar),
   TArray(TChar, 2), TVector(TVector(TChar))}

PushWild == Staging /\ FromMenu(WildMenu, MaxWildPush)

PopWild ==
  /\ script.kind = "loaded"
  /\ \E ty \in WildTypes, undef \in UndefReads :
       PopEnding(ty, pop(ty, serialized_blob, IntCast(serialized_header_length), undef),
                 MaxWild)

NextWild == PushWild \/ WriteOnce \/ LoadWritten \/ PopWild

SpecWild == Init /\ [][NextWild]_vars
\* ------------------------------------------------------------------ claims
Loaded == script.kind = "loaded"

\* the last call was a pop, and it and every pop before it on this loaded
\* blob asked for the type that was pushed at its position
AfterTypedPop == Loaded /\ result.op = "pop" /\ script.bad = 0

\* the value pushed at the position the last pop read
PushedThere == script.vals[script.idx][2]

ReturnedAsPushed == result.status = "ok" /\ result.val = PushedThere

\* C1: after N pushes of scalars of mixed widths, a file write and a load,
\* the i-th correctly typed pop returns the value of the i-th push, for
\* every i in 1..N.
OrderPreservation == AfterTypedPop => ReturnedAsPushed

\* C1 witness: the third pop after pushes of widths 8, 1 and 1+3 bytes
OrderWitness ==
  /\ AfterTypedPop
  /\ script.idx = 3
  /\ script.vals[1][1] = TUint64
  /\ script.vals[2][1] = TChar
  /\ script.vals[3][1] = TString
  /\ result.val = Bob

ScalarTypes == ScalarKinds

HasNul(tv) == tv[1] = TString /\ \E i \in 1..Len(tv[2].w) : tv[2].w[i] = 0

\* C2 as stated: every value of every scalar type, text included, comes
\* back exactly from push, write, load, pop.
ScalarRoundTripEvery == (AfterTypedPop /\ result.ty \in ScalarTypes) => ReturnedAsPushed

\* C2 amended: every value of every scalar type comes back exactly, text
\* provided it holds no NUL character; a text that holds one comes back cut
\* at its first NUL.
ScalarRoundTrip ==
  (AfterTypedPop /\ result.ty \in ScalarTypes) =>
    /\ result.status = "ok"
    /\ IF HasNul(script.vals[script.idx])
       THEN result.val = Text(CStr(PushedThere.w, 1))
       ELSE result.val = PushedThere

\* C2 witness: a negative int has come back
ScalarWitness ==
  /\ AfterTypedPop
  /\ result.ty = TInt
  /\ result.val = Int32(255, 255, 255, 254)

NestedRoundTrip ==
  /\ (AfterTypedPop /\ result.ty = TVector(TVector(TInt))) => ReturnedAsPushed
  /\ (AfterTypedPop /\ script.idx > 1
        /\ script.vals[script.idx - 1][1] = TVector(TVector(TInt))) => ReturnedAsPushed

IsFlat(ty) == ty.k \in {"std::vector", "std::queue"}

\* C5: a vector or queue of scalars with 0, 1 or many elements comes back
\* with the same element count and the same element order.
FlatRoundTrip ==
  (AfterTypedPop /\ IsFlat(result.ty)) =>
    /\ ReturnedAsPushed
    /\ Len(result.val.e) = Len(PushedThere.e)
    /\ \A i \in 1..Len(PushedThere.e) : result.val.e[i] = PushedThere.e[i]

\* C5 witness: a queue of three characters has come back, front first,
\* as the second value popped
FlatWitness ==
  /\ AfterTypedPop
  /\ script.idx = 2
  /\ result.ty = TQueue(TChar)
  /\ Len(result.val.e) = 3
  /\ result.val.e[1] = Scalar(<<65>>)

\* every push of the sequence vals made on a fresh instance
RECURSIVE StageAll(_, _, _)
StageAll(vals, index, st) ==
  IF index > Len(vals) THEN st
  ELSE StageAll(vals, index + 1, push(vals[index][1], vals[index][2], st, Zero32))

\* the buffer Serialize() returns after the pushes vals on a fresh instance
BufferOf(vals) ==
  LET st == StageAll(vals, 1, [binary_data |-> <<>>, variable_lengths |-> <<>>])
  IN  SerializeBlob(<<>>, st.variable_lengths, st.binary_data)

\* the pushes vals with the map at position i filled in the order p instead
Refilled(vals, i, p) ==
  [vals EXCEPT ![i][2] =
     MapOf(vals[i][1].a[1], [j \in 1..Len(vals[i][2].e) |-> vals[i][2].e[p[j]]])]

\* C6: a map comes back with exactly the same key-to-value associations, and
\* the serialized bytes are the same whatever order the entries were
\* inserted in before the push.
MapRoundTrip ==
  /\ (AfterTypedPop /\ result.ty.k = "std::map") => ReturnedAsPushed
  /\ (result.op = "SerializeFile" /\ result.status = "ok") =>
       \A i \in 1..Len(pushed) :
         pushed[i][1].k = "std::map" =>
           \A p \in Permutations(1..Len(pushed[i][2].e)) :
             BufferOf(Refilled(pushed, i, p)) = result.buf

\* C6 witness: a map of three entries, filled out of key order, has come back
MapWitness ==
  /\ AfterTypedPop
  /\ result.ty = TMap(TInt, TString)
  /\ Len(result.val.e) = 3
  /\ result.val.e[1].e[1] = Int32(255, 255, 255, 255)

\* C7: a stack comes back with the same top-to-bottom element sequence; the
\* top after the pop is the top before the push.
StackRoundTrip ==
  (AfterTypedPop /\ result.ty.k = "std::stack") =>
    /\ result.status = "ok"
    /\ TopDown(result.val.e) = TopDown(PushedThere.e)
    /\ Len(PushedThere.e) > 0 =>
         result.val.e[Len(result.val.e)] = PushedThere.e[Len(PushedThere.e)]

\* C7 witness: the stack 1, 2, 3 (3 on top) has come back with 3 on top
StackWitness ==
  /\ AfterTypedPop
  /\ result.ty = TStack(TInt)
  /\ Len(result.val.e) = 3
  /\ result.val.e[3] = Int32(0, 0, 0, 3)

\* C8: after Serialize(file) and Deserialize of the untouched file, before
\* any pop, the loaded blob is the buffer Serialize returned, the stored
\* checksum is the one computed at write time, and ValidateData() is true.
ChecksumAcceptance ==
  (Loaded /\ script.idx = 0 /\ ~written.flipped) =>
    /\ serialized_blob = written.buf
    /\ checksum = written.sum
    /\ CalculateCheckSum(serialized_blob) = checksum
    /\ result.op = "ValidateData" => result.flag

\* C8 witness: ValidateData() has returned true on a loaded file of two pushes
AcceptanceWitness ==
  /\ Loaded /\ script.idx = 0 /\ ~written.flipped
  /\ Len(script.vals) = 2
  /\ result.op = "ValidateData" /\ result.flag

\* C9: once one bit after the checksum field of a written file is inverted,
\* the CRC-32 of the loaded blob differs from the stored checksum and
\* ValidateData() returns false.
ChecksumSensitivity ==
  (Loaded /\ written.flipped) =>
    /\ CalculateCheckSum(serialized_blob) # checksum
    /\ result.op = "ValidateData" => ~result.flag

\* C9 witness: ValidateData() has returned false on a file with one bit inverted
SensitivityWitness ==
  /\ Loaded /\ written.flipped
  /\ Len(script.vals) = 1
  /\ result.op = "ValidateData" /\ ~result.flag

\* N, the record count of the file that was loaded
LoadedRecordCount == SmallVal(ReadSerializedBlob(0, written.buf, Zero64).data)

PayloadLeft == Len(serialized_blob) - 8 * (LoadedRecordCount + 1)

Width(ty) == IF ty \in {TChar, TUChar} THEN 1 ELSE 8

\* a pop<T> of a fixed-width scalar T on a loaded instance
FixedPopStep ==
  /\ Loaded
  /\ script'.idx = script.idx + 1
  /\ result'.op = "pop"
  /\ result'.ty \in FixedWidthTypes

\* C10: on a loaded instance a pop of a fixed-width scalar throws
\* out_of_range exactly when fewer payload bytes remain than the type needs;
\* a pop that returns took all its bytes from the payload, never from the
\* header and never from outside the blob.
OutOfDataScalars ==
  [][FixedPopStep =>
       /\ (result'.status = "out_of_range") <=> (PayloadLeft < Width(result'.ty))
       /\ ~result'.ub
       /\ result'.status = "ok" =>
            /\ Len(serialized_blob') = Len(serialized_blob) - Width(result'.ty)
            /\ Len(serialized_blob') >= 8 * (LoadedRecordCount + 1)]_vars

\* C10 witness: pop<uint64_t> has thrown on a loaded file that held one char
OutOfDataWitness ==
  /\ Loaded /\ result.op = "pop"
  /\ Len(script.vals) = 1 /\ script.vals[1][1] = TChar /\ script.idx = 1
  /\ result.ty = TUint64
  /\ result.status = "out_of_range"


\* a pop<T> on a loaded instance whose payload region is already empty
DryPopStep ==
  /\ Loaded
  /\ PayloadLeft = 0
  /\ script'.idx = script.idx + 1
  /\ result'.op = "pop"

\* C11: on a loaded instance with no payload byte left, pop<T> throws
\* out_of_range for every supported T, text and the counted collection
\* types included; it never returns a default value.
OutOfDataEveryType == [][DryPopStep => result'.status = "out_of_range"]_vars

\* a Serialize() that directly follows a Serialize()
SerializeAgain ==
  /\ result.op = "Serialize"
  /\ result'.op = "Serialize"
  /\ result'.prev = "Serialize"

\* C12: two consecutive Serialize() calls with no push between them return
\* byte-identical buffers, and the second leaves the staged chunks, the
\* ledger and the blob as the first left them.
FinalizeIdempotent ==
  [][SerializeAgain =>
       /\ result'.buf = result.buf
       /\ binary_data' = binary_data
       /\ variable_lengths' = variable_lengths
       /\ serialized_blob' = serialized_blob]_vars

\* C12 witness: Serialize() has been called twice in a row on an instance
\* that had loaded a file and then staged a vector
IdempotenceWitness ==
  /\ result.op = "Serialize" /\ result.prev = "Serialize"
  /\ file.exists
  /\ Len(pushed) = 1 /\ pushed[1][1] = TVector(TInt)
  /\ Len(result.buf) = 24

\* a Serialize(file_name) whose output file could not be opened
FailedWriteStep == result'.op = "SerializeFile" /\ result'.status = "io_failure"

\* C13: a Serialize(file_name) that cannot open its file throws and leaves
\* the in-memory blob exactly as it was before the call.
FailedWriteKeepsBuffer == [][FailedWriteStep => serialized_blob' = serialized_blob]_vars

\* C14: a Deserialize that cannot open its file throws and leaves the staged
\* chunks, the ledger and the blob empty, whatever was staged or loaded.
FailedReadClears ==
  (result.op = "Deserialize" /\ result.status = "io_failure") =>
    /\ binary_data = <<>>
    /\ variable_lengths = <<>>
    /\ serialized_blob = <<>>
    /\ original_serialized_blob = <<>>

\* C14 witness: Deserialize has failed right after a push on an instance
\* that had staged two values
FailedReadWitness ==
  /\ result.op = "Deserialize" /\ result.status = "io_failure"
  /\ result.prev = "push"
  /\ nPush = 2
  /\ serialized_blob = <<>>

\* C15: after Clear() the staged chunks, the ledger and the blob are empty,
\* and every later Serialize() returns the bytes a freshly constructed
\* instance returns for the pushes made since (the 8-byte zero header when
\* there are none).
ClearResets ==
  /\ result.op = "Clear" =>
       /\ binary_data = <<>>
       /\ variable_lengths = <<>>
       /\ serialized_blob = <<>>
       /\ original_serialized_blob = <<>>
  /\ result.op = "Serialize" =>
       /\ result.buf = BufferOf(pushed)
       /\ pushed = <<>> => result.buf = <<0, 0, 0, 0, 0, 0, 0, 0>>

\* C15 witness: Serialize() has returned the buffer of one vector although
\* another value had been staged and discarded before; no file was ever
\* written, so only Clear(), called by the caller or by a failing
\* Deserialize, can have discarded it
ClearWitness ==
  /\ result.op = "Serialize"
  /\ ~file.exists
  /\ nPush = 2
  /\ Len(pushed) = 1 /\ pushed[1][1] = TVector(TInt)
  /\ Len(result.buf) = 24

\* C16: after pushes and an in-memory Serialize() with no load in between,
\* the i-th correctly typed pop returns the value of the i-th push,
\* whatever the instance had loaded earlier.
FinalizeThenPop ==
  (script.kind = "built" /\ result.op = "pop" /\ script.bad = 0
     /\ script.idx <= Len(script.vals)) => ReturnedAsPushed

\* the unread payload of a loaded blob
UnreadPayload ==
  SubSeq(serialized_blob, IntCast(serialized_header_length) + 1, Len(serialized_blob))

\* a Serialize() on an instance that holds unread loaded payload and has
\* staged new values since the load
AppendSaveStep ==
  /\ Loaded
  /\ Len(UnreadPayload) > 0
  /\ pushed # <<>>
  /\ result'.op = "Serialize"

\* C20: a Serialize() after load and push keeps the unread loaded payload
\* together with the new chunks, under a header that counts the loaded
\* records and the new ones.
LoadAppendSave ==
  [][AppendSaveStep =>
       /\ Len(serialized_blob') >= 8 + Len(UnreadPayload) + Len(Flatten(binary_data, 1))
       /\ \E offset \in 8..(Len(serialized_blob') - Len(UnreadPayload)) :
            SubSeq(serialized_blob', offset + 1, offset + Len(UnreadPayload)) = UnreadPayload]_vars

\* the bytes of the staged chunks from position from on
RECURSIVE SumLen(_, _)
SumLen(chunks, from) ==
  IF from > Len(chunks) THEN 0 ELSE Len(chunks[from]) + SumLen(chunks, from + 1)

\* buf holds the 8-byte little-endian image of the numeral w at offset
LE64At(buf, offset, w) == \A j \in 0..7 : buf[offset + 1 + j] = w[8 - j]

\* C17: on a push-only instance Serialize() returns LE64(N), then the N
\* length records as 8-byte little-endian values in reverse push order,
\* then the staged chunks in reverse push order, each chunk's bytes in
\* forward order; the first chunk pushed is the tail of the buffer and the
\* buffer is 8*(N+1) bytes plus the chunks long.
BufferLayout ==
  result.op = "Serialize" =>
    LET N == Len(variable_lengths)
        buf == result.buf
    IN  /\ Len(buf) = 8 * (N + 1) + SumLen(binary_data, 1)
        /\ LE64At(buf, 0, ToU64(N))
        /\ \A i \in 1..N : LE64At(buf, 8 * i, variable_lengths[N + 1 - i])
        /\ \A c \in 1..Len(binary_data) :
             \A j \in 1..Len(binary_data[c]) :
               buf[8 * (N + 1) + SumLen(binary_data, c + 1) + j] = binary_data[c][j]
        /\ Len(binary_data) > 0 =>
             SubSeq(buf, Len(buf) - Len(binary_data[1]) + 1, Len(buf)) = binary_data[1]

\* C17 witness: the buffer of a list of lists [[1,2],[3]] followed by a
\* text: three records, three 8-byte chunks and one 4-byte chunk
LayoutWitness ==
  /\ result.op = "Serialize"
  /\ Len(pushed) = 2
  /\ pushed[1][1] = TVector(TVector(TInt)) /\ pushed[2][1] = TString
  /\ Len(variable_lengths) = 3
  /\ Len(result.buf) = 8 * 4 + 3 * 8 + 4
  /\ SubSeq(result.buf, 33, 36) = <<0, 66, 111, 98>>

CountedKinds == {"std::array", "std::vector", "std::map", "std::queue", "std::stack"}

\* the type of the elements a counted collection encodes
ElementType(ty) == IF ty.k = "std::map" THEN TPair(ty.a[1], ty.a[2]) ELSE ty.a[1]

\* the element counts of the counted collections inside a value, each
\* collection listed when its last element has been encoded
RECURSIVE RecordsOf(_, _)
RECURSIVE RecordsOfElements(_, _, _)
RECURSIVE RecordsOfMembers(_, _, _)
RecordsOf(ty, val) ==
  CASE ty.k \in CountedKinds ->
         Append(RecordsOfElements(ElementType(ty), val.e, 1), ToU64(Len(val.e)))
    [] ty.k = "std::pair" -> RecordsOf(ty.a[1], val.e[1]) \o RecordsOf(ty.a[2], val.e[2])
    [] ty.k = "std::tuple" -> RecordsOfMembers(ty, val, Len(ty.a))
    [] OTHER -> <<>>

RecordsOfElements(ety, elems, index) ==
  IF index > Len(elems) THEN <<>>
  ELSE RecordsOf(ety, elems[index]) \o RecordsOfElements(ety, elems, index + 1)

\* a tuple is encoded last member first
RecordsOfMembers(ty, val, index) ==
  IF index < 1 THEN <<>>
  ELSE RecordsOf(ty.a[index], val.e[index]) \o RecordsOfMembers(ty, val, index - 1)

RECURSIVE RecordsOfPushes(_, _)
RecordsOfPushes(vals, index) ==
  IF index > Len(vals) THEN <<>>
  ELSE RecordsOf(vals[index][1], vals[index][2]) \o RecordsOfPushes(vals, index + 1)

\* C19: the ledger holds exactly one record for each array, vector, map,
\* queue or stack pushed, nested ones included, in the order the
\* collections finished encoding, each equal to the element count; scalars,
\* pairs and tuples add none, and the N Serialize() writes is the ledger size.
LedgerRecords ==
  /\ variable_lengths = RecordsOfPushes(pushed, 1)
  /\ result.op = "Serialize" => LE64At(result.buf, 0, ToU64(Len(variable_lengths)))

\* C19 witness: after a stack of two arrays and a list of lists the ledger
\* reads 2, 2, 2 (arrays, stack), 2, 1, 2 (inner lists, outer list)
LedgerWitness ==
  /\ result.op = "Serialize"
  /\ Len(pushed) = 2
  /\ pushed[1][1] = TStack(TArray(TInt, 2)) /\ pushed[2][1] = TVector(TVector(TInt))
  /\ variable_lengths = <<ToU64(2), ToU64(2), ToU64(2), ToU64(2), ToU64(1), ToU64(2)>>
  /\ result.buf[1] = 6

\* how many of the first upto pushes are counted collections
RECURSIVE CollectionsAmong(_, _)
CollectionsAmong(vals, upto) ==
  IF upto < 1 THEN 0
  ELSE CollectionsAmong(vals, upto - 1)
         + (IF vals[upto][1].k \in CountedKinds THEN 1 ELSE 0)

\* the 8-byte counter at offset 0 of the blob
HeaderCounter == ReadSerializedBlob(0, serialized_blob, Zero64).data

\* C18: for flat collections pushed among scalars, the i-th collection
\* popped after the load reads the length record of the i-th collection
\* pushed, and once it is decoded the counter at offset 0 of the blob is
\* N - i; after the last one it is 0.
LedgerLockStep ==
  AfterTypedPop =>
    LET N == CollectionsAmong(script.vals, Len(script.vals))
        i == CollectionsAmong(script.vals, script.idx)
    IN  /\ HeaderCounter = ToU64(N - i)
        /\ script.idx = Len(script.vals) => HeaderCounter = Zero64
        /\ result.ty.k \in CountedKinds =>
             /\ result.status = "ok"
             /\ LE64At(serialized_blob, 8 * (N - i + 1), ToU64(Len(PushedThere.e)))
             /\ Len(result.val.e) = Len(PushedThere.e)

\* C18 witness: the second of two collections of different sizes, pushed
\* with nothing between them, has been decoded and the counter is 0
LockStepWitness ==
  /\ AfterTypedPop
  /\ script.idx = 2 /\ Len(script.vals) = 2
  /\ script.vals[1][1] = TQueue(TChar)
  /\ result.ty = TVector(TInt)
  /\ Len(result.val.e) = 1
  /\ HeaderCounter = Zero64

\* C21: Serialize() leaves the staged chunks and the ledger unchanged, so a
\* Serialize() after pushes P1..Pn, further pushes Pn+1..Pm and a second
\* Serialize() returns the buffer one Serialize() returns after P1..Pm on
\* a fresh instance.
FinalizeKeepsStaging ==
  [][result'.op = "Serialize" =>
       /\ binary_data' = binary_data
       /\ variable_lengths' = variable_lengths
       /\ result'.buf = BufferOf(pushed')]_vars

\* C21 witness: a second Serialize() after one push, a first Serialize()
\* and one more push has returned the buffer of both pushes
KeepsStagingWitness ==
  /\ result.op = "Serialize"
  /\ result.prev = "push"
  /\ result.rebuilt = 1
  /\ Len(pushed) = 2
  /\ pushed[1][1] = TVector(TVector(TInt))
  /\ result.buf = BufferOf(pushed)

\* C22: a tuple of scalars pushed, written, loaded and popped with the same
\* tuple type comes back with its members in the original left-to-right
\* order.
TupleRoundTrip == (AfterTypedPop /\ result.ty.k = "std::tuple") => ReturnedAsPushed

\* the last pop asked for a map where a list of pairs had been pushed, and
\* every pop before it asked for the type that was pushed
PoppedListAsMap ==
  /\ Loaded /\ result.op = "pop" /\ script.bad = 1
  /\ result.ty = TMap(TInt, TChar)
  /\ script.vals[script.idx][1] = TVector(TPair(TInt, TChar))

\* the value of the last pair of the list that has this key
LastValueOf(pairs, key) ==
  LET last == CHOOSE i \in 1..Len(pairs) :
                /\ pairs[i].e[1] = key
                /\ \A j \in (i + 1)..Len(pairs) : pairs[j].e[1] # key
  IN  pairs[last].e[2]

\* C23: when a map pop reads the same key more than once, the value of the
\* pair read later overwrites the earlier one in the map returned.
DuplicateKeysOverwrite ==
  PoppedListAsMap =>
    /\ result.status = "ok"
    /\ \A i \in 1..Len(PushedThere.e) :
         \E m \in 1..Len(result.val.e) :
           /\ result.val.e[m].e[1] = PushedThere.e[i].e[1]
           /\ result.val.e[m].e[2] = LastValueOf(PushedThere.e, PushedThere.e[i].e[1])

\* a pop on a loaded instance that ends with std::out_of_range
FailedPopStep ==
  /\ Loaded
  /\ script'.idx = script.idx + 1
  /\ result'.op = "pop"
  /\ result'.status = "out_of_range"

\* C24 as stated: when a pop throws out_of_range on a loaded instance the
\* blob is exactly what it was before the pop.
FailedPopChangesNothing == [][FailedPopStep => serialized_blob' = serialized_blob]_vars

\* C24, amended: a pop that throws out_of_range on a loaded instance never
\* touches the length records or the payload bytes it did not reach, but it
\* does not put back what it took: a pop of an 8-byte scalar leaves no
\* payload byte at all, a pop of a text leaves a shorter or equal blob, and
\* only a pop of char or unsigned char leaves the blob exactly as it was.
FailedPopKeepsWhatItTook ==
  [][FailedPopStep =>
       /\ Len(serialized_blob') <= Len(serialized_blob)
       /\ Len(serialized_blob') >= 8 * (LoadedRecordCount + 1)
       /\ SubSeq(serialized_blob', 9, Len(serialized_blob'))
            = SubSeq(serialized_blob, 9, Len(serialized_blob'))
       /\ result'.ty \in {TChar, TUChar} => serialized_blob' = serialized_blob
       /\ result'.ty \in {TUint64, TInt, TBool} =>
            serialized_blob' = SubSeq(serialized_blob, 1, 8 * (LoadedRecordCount + 1))
       /\ result'.ty = TString =>
            serialized_blob' = SubSeq(serialized_blob, 1, Len(serialized_blob'))]_vars

\* the first pop after a load asked for an 8-byte scalar, threw, and left
\* the blob shorter than the loaded one
FailedPopTookBytes ==
  /\ Loaded
  /\ script.idx = 1
  /\ result.op = "pop"
  /\ result.ty = TUint64
  /\ result.status = "out_of_range"
  /\ Len(serialized_blob) < Len(written.buf)

\* C25 as stated: after any pops on a loaded instance the counter at offset
\* 0 of the blob is between 0 and the number of length records of the file.
CounterInRange ==
  Loaded => /\ IsSmall(HeaderCounter)
            /\ SmallVal(HeaderCounter) <= LoadedRecordCount

\* C26: after any pops on a loaded instance the blob still holds its whole
\* header, and everything in it from offset 8 on is what the loaded file
\* had there: the length records are untouched, and a pop changes only the
\* counter at offset 0 and the tail of the payload.
HeaderIntact ==
  Loaded =>
    /\ Len(serialized_blob) >= 8 * (LoadedRecordCount + 1)
    /\ Len(serialized_blob) <= Len(written.buf)
    /\ SubSeq(serialized_blob, 9, Len(serialized_blob))
         = SubSeq(written.buf, 9, Len(serialized_blob))

\* a file with a length record was loaded, pops not following the pushes
\* have changed the counter and taken the whole payload, and the last one
\* threw
HeaderIntactWitness ==
  /\ Loaded
  /\ LoadedRecordCount >= 1
  /\ script.bad >= 1
  /\ result.op = "pop"
  /\ result.status = "out_of_range"
  /\ PayloadLeft = 0
  /\ Len(written.buf) > Len(serialized_blob)
  /\ HeaderCounter # ReadSerializedBlob(0, written.buf, Zero64).data

\* scalars, texts and the variable-length collections of scalars
FlatPopTypes ==
  {TUint64, TInt, TBool, TChar, TUChar, TString,
   TVector(TChar), TQueue(TUChar), TStack(TChar), TMap(TChar, TChar)}

====
